---- MODULE Spec2Model ----
(***************************************************************************)
(* Model of automerge-repo-storage-opfs: OPFSStorageAdapter (src/opfs.ts)  *)
(* and OPFSWorkerStorageAdapter (src/index.ts).                            *)
(*                                                                         *)
(* Strings are sequences of one-character strings so that slice, join,     *)
(* split and startsWith are computed as the code computes them.  The       *)
(* origin private file system is a map from locators (sequences of names)  *)
(* to entries; a handle is a locator, and every handle method first        *)
(* locates its entry, as the WHATWG File System standard prescribes.       *)
(* Code between two awaits runs without interruption; every action is the  *)
(* completion of one awaited call followed by the synchronous code up to   *)
(* the next awaited call.                                                  *)
(***************************************************************************)
EXTENDS Integers, Sequences, FiniteSets, TLC

\* ------------------------------------------------------------------ bounds
MaxOps == 3
MaxRestarts == 1
MaxOpsConc == 3
MaxOpsFault == 2
MaxFaults == 1
MaxCalls == 2
MaxSegs == 2
MaxOpsRange == 5
MaxOpsRace == 2

\* ------------------------------------------------------------- vocabulary
sAB == <<"a", "b">>
sABC == <<"a", "b", "c">>
sABCD == <<"a", "b", "c", "d">>
sC == <<"c">>
sD == <<"d">>
sE == <<"e">>

K_abc_d == <<sABC, sD>>
K_abc_e == <<sABC, sE>>
K_abcd == <<sABCD>>
K_abc == <<sABC>>
K_ab_c_d == <<sAB, sC, sD>>

AllKeys == {K_abc_d, K_abc_e, K_abcd, K_abc, K_ab_c_d}
AllPayloads == {<< >>, <<1>>, <<2, 2>>}
Procs == {1, 2}

NoErr == "none"
sUndefined == <<"u", "n", "d", "e", "f", "i", "n", "e", "d">>

\* ------------------------------------------------------ string primitives
\* String.prototype.slice(from) and slice(0, to) on a character sequence.
SliceTo(s, n) == SubSeq(s, 1, IF Len(s) < n THEN Len(s) ELSE n)
SliceFrom(s, n) == SubSeq(s, n + 1, Len(s))

\* Array.prototype.slice(0, -1) and the last element.
ButLast(p) == SubSeq(p, 1, Len(p) - 1)
Last(p) == p[Len(p)]

startsWith(s, pre) == Len(pre) <= Len(s) /\ SubSeq(s, 1, Len(pre)) = pre

RECURSIVE join(_)
join(parts) ==
    IF Len(parts) = 0 THEN << >>
    ELSE IF Len(parts) = 1 THEN parts[1]
    ELSE parts[1] \o <<"-">> \o join(Tail(parts))

\* String.prototype.split('-'): always at least one (possibly empty) part.
RECURSIVE splitFrom(_, _, _)
splitFrom(s, i, cur) ==
    IF i > Len(s) THEN <<cur>>
    ELSE IF s[i] = "-" THEN <<cur>> \o splitFrom(s, i + 1, << >>)
    ELSE splitFrom(s, i + 1, Append(cur, s[i]))

split(s) == splitFrom(s, 1, << >>)

\* ------------------------------------------------------------------ codec
getKey(key) == join(key)

\* Faulty variant of getFilePath: an empty remainder is left out of the path.
getFilePath_noEmpty(keyArray) ==
    IF Len(keyArray[1]) <= 2 THEN <<keyArray[1]>> \o Tail(keyArray)
    ELSE <<SliceTo(keyArray[1], 2), SliceFrom(keyArray[1], 2)>> \o Tail(keyArray)

\* getFilePath, lines 126-129.
getFilePath(keyArray) ==
    <<SliceTo(keyArray[1], 2), SliceFrom(keyArray[1], 2)>> \o Tail(keyArray)

\* A destructured element that is missing is undefined, and string
\* concatenation turns undefined into the text "undefined".
getKeyArray(path) ==
    LET prefix == IF Len(path) >= 1 THEN path[1] ELSE sUndefined
        firstKey == IF Len(path) >= 2 THEN path[2] ELSE sUndefined
    IN  <<prefix \o firstKey>> \o SubSeq(path, 3, Len(path))

\* Segment-wise prefix of storage keys.
IsPrefix(p, k) == Len(p) <= Len(k) /\ SubSeq(k, 1, Len(p)) = p
Related(a, b) == IsPrefix(a, b) \/ IsPrefix(b, a)

\* ------------------------------------------------------- maps as functions
Put(f, k, v) == [x \in DOMAIN f \cup {k} |-> IF x = k THEN v ELSE f[x]]
Drop(f, ks) == [x \in DOMAIN f \ ks |-> f[x]]
EmptyMap == [x \in {} |-> << >>]

\* ------------------------------------------------------------- file store
DirEntry == [kind |-> "dir", bytes |-> << >>]
FileEntry(b) == [kind |-> "file", bytes |-> b]
EmptyStore == [x \in {<< >>} |-> DirEntry]

IsDir(store, loc) == loc \in DOMAIN store /\ store[loc].kind = "dir"
IsFile(store, loc) == loc \in DOMAIN store /\ store[loc].kind = "file"

\* A valid file name is not the empty string (nor "." or "..", nor one
\* holding a path separator; the model's names hold none of these).
ValidName(name) == name # << >>

StoreRes(e, s) == [err |-> e, store |-> s]

\* FileSystemDirectoryHandle.getDirectoryHandle(name, { create: true })
StoreGetDirectory(store, dir, name) ==
    LET child == Append(dir, name) IN
    IF ~ValidName(name) THEN StoreRes("TypeError", store)
    ELSE IF ~IsDir(store, dir) THEN StoreRes("NotFoundError", store)
    ELSE IF IsFile(store, child) THEN StoreRes("TypeMismatchError", store)
    ELSE IF IsDir(store, child) THEN StoreRes(NoErr, store)
    ELSE StoreRes(NoErr, Put(store, child, DirEntry))

\* FileSystemDirectoryHandle.getFileHandle(name, { create: true })
StoreGetFile(store, dir, name) ==
    LET child == Append(dir, name) IN
    IF ~ValidName(name) THEN StoreRes("TypeError", store)
    ELSE IF ~IsDir(store, dir) THEN StoreRes("NotFoundError", store)
    ELSE IF IsDir(store, child) THEN StoreRes("TypeMismatchError", store)
    ELSE IF IsFile(store, child) THEN StoreRes(NoErr, store)
    ELSE StoreRes(NoErr, Put(store, child, FileEntry(<< >>)))

Under(loc, top) == Len(top) <= Len(loc) /\ SubSeq(loc, 1, Len(top)) = top

\* FileSystemDirectoryHandle.removeEntry(name, { recursive: true }); an entry
\* that holds an open writable or access handle cannot be removed.
StoreRemoveEntry(store, held, dir, name) ==
    LET child == Append(dir, name) IN
    IF ~ValidName(name) THEN StoreRes("TypeError", store)
    ELSE IF ~IsDir(store, dir) THEN StoreRes("NotFoundError", store)
    ELSE IF child \notin DOMAIN store THEN StoreRes("NotFoundError", store)
    ELSE IF \E l \in DOMAIN held : Under(l, child)
         THEN StoreRes("NoModificationAllowedError", store)
    ELSE StoreRes(NoErr, Drop(store, {l \in DOMAIN store : Under(l, child)}))

\* FileSystemSyncAccessHandle.write(buffer): writes at the cursor (0) and
\* keeps whatever the file held beyond the written bytes.
WriteAtZero(old, buf) == buf \o SubSeq(old, Len(buf) + 1, Len(old))

\* The files below a directory, as the recursive walk of entries() finds.
FilesUnder(store, dir) ==
    {l \in DOMAIN store : Under(l, dir) /\ store[l].kind = "file"}

\* ------------------------------------------------------------------ state
VARIABLES
    fs,                     \* the origin private file system below the root
    locks,                  \* open writables / access handles per locator
    cache,                  \* OPFSStorageAdapter.cache
    fileHandleCache,        \* OPFSStorageAdapter.fileHandleCache
    directoryHandleCache,   \* OPFSStorageAdapter.directoryHandleCache
    inWorker,               \* 'createSyncAccessHandle' in fileHandle
    op,                     \* the calls in flight, one slot per caller
    rec,                    \* history: what is known of each key's record
    ranged,                 \* history: prefixes whose removeRange completed
    lastWrite,              \* history: payload of the latest store write
    nops, restarts, faults, \* counters that bound the run
    mode,                   \* the callers, keys and payloads of this run
    px,                     \* OPFSWorkerStorageAdapter and its worker
    codec                   \* the key/path codec applied to a pair of keys

storeVars == <<fs, locks>>
cacheVars == <<cache, fileHandleCache, directoryHandleCache>>
histVars == <<rec, ranged, lastWrite>>
countVars == <<nops, restarts, faults>>
coreVars == <<fs, locks, cache, fileHandleCache, directoryHandleCache, inWorker,
              op, rec, ranged, lastWrite, nops, restarts, faults, mode, codec>>
vars == <<fs, locks, cache, fileHandleCache, directoryHandleCache, inWorker,
          op, rec, ranged, lastWrite, nops, restarts, faults, mode, px, codec>>

\* ---------------------------------------------------------------- results
NoRes == [st |-> "none", some |-> FALSE, val |-> << >>, err |-> NoErr]
Ok(v) == [st |-> "ok", some |-> TRUE, val |-> v, err |-> NoErr]
OkAbsent == [st |-> "ok", some |-> FALSE, val |-> << >>, err |-> NoErr]
Rejected(e) == [st |-> "rejected", some |-> FALSE, val |-> << >>, err |-> e]

EmptyBag == [x \in {} |-> 0]
BagAdd(b, x) == IF x \in DOMAIN b THEN [b EXCEPT ![x] = @ + 1] ELSE Put(b, x, 1)

Chunk(k, d) == [key |-> k, data |-> d]

Idle ==
    [kind |-> "idle", pc |-> "idle", key |-> << >>, bin |-> << >>,
     walk |-> << >>, i |-> 0, then |-> "none", fpath |-> << >>, name |-> << >>,
     dir |-> << >>, handle |-> << >>, file |-> << >>,
     skip |-> {}, chunks |-> EmptyBag, pending |-> {},
     res |-> NoRes, failed |-> NoErr, failedLoc |-> << >>,
     clean |-> TRUE, was |-> {}, absent0 |-> FALSE, snap |-> EmptyStore,
     overlap |-> FALSE, prev |-> << >>, overRead |-> FALSE, raced |-> FALSE]

InFlight(q) == op[q].pc \notin {"idle", "done"}
Done(q) == op[q].pc = "done"
Mutator(o) == o.kind \in {"save", "remove", "removeRange"}
Returned(p, kind) == Done(p) /\ op[p].kind = kind

\* The call returns: its locals are gone, its outcome stays with the caller.
Finish(o, r) ==
    [Idle EXCEPT !.kind = o.kind, !.pc = "done", !.key = o.key, !.bin = o.bin,
                 !.chunks = o.chunks, !.res = r, !.failed = o.failed,
                 !.failedLoc = o.failedLoc,
                 !.clean = o.clean, !.was = o.was, !.absent0 = o.absent0,
                 !.snap = o.snap, !.overlap = o.overlap, !.prev = o.prev,
                 !.overRead = o.overRead, !.raced = o.raced,
                 !.dir = o.dir, !.handle = o.handle]

\* A rejected await: the async function has no try/catch, the rejection
\* ends the call and becomes its outcome.
Reject(o, e) == Finish([o EXCEPT !.failed = e, !.failedLoc = o.handle], Rejected(e))

\* ------------------------------------------------------- history variables
Never == [st |-> "never", val |-> << >>]
Other == [st |-> "other", val |-> << >>]
Saved(b) == [st |-> "saved", val |-> b]
Removed == [st |-> "removed", val |-> << >>]
RangeRemoved == [st |-> "rangeRemoved", val |-> << >>]

Succeeded(o) == o.pc = "done" /\ o.res.st = "ok" /\ o.clean

RecAtIssue(kind, k) ==
    [x \in AllKeys |->
        IF kind = "save" /\ x = k THEN Other
        ELSE IF Related(x, k) /\ rec[x].st # "never" THEN Other
        ELSE rec[x]]

RecAfter(o) ==
    IF ~Succeeded(o) THEN rec
    ELSE IF o.kind = "save" THEN [rec EXCEPT ![o.key] = Saved(o.bin)]
    ELSE IF o.kind = "remove" /\ o.key \in o.was THEN [rec EXCEPT ![o.key] = Removed]
    ELSE IF o.kind = "removeRange"
         THEN [x \in AllKeys |->
                 IF IsPrefix(o.key, x) /\ x \in o.was THEN RangeRemoved ELSE rec[x]]
    ELSE rec

RangedAfter(o) ==
    IF Succeeded(o) /\ o.kind = "removeRange"
       /\ (\E x \in o.was : IsPrefix(o.key, x))
    THEN ranged \cup {o.key}
    ELSE ranged

SavedKeys == {x \in AllKeys : rec[x].st = "saved"}

\* ------------------------------------------------------ handle resolution
\* What follows a resolved directory handle, by the caller that awaited it.
AfterDir(o, d) ==
    IF o.then = "file" THEN [o EXCEPT !.pc = "getFileHandle", !.dir = d]
    ELSE IF o.then = "entries" THEN [o EXCEPT !.pc = "entries", !.dir = d]
    ELSE [o EXCEPT !.pc = "removeEntry", !.dir = d]

\* What follows a resolved file handle.
AfterFile(o, h) ==
    IF o.kind = "load" THEN [o EXCEPT !.pc = "getFile", !.handle = h]
    ELSE [o EXCEPT !.pc = "open", !.handle = h]

\* getDirectoryHandle(path) up to its first await: the memoized handle, or
\* the start of the walk from the root.
StartDir(o, path, next) ==
    IF getKey(path) \in DOMAIN directoryHandleCache
    THEN AfterDir([o EXCEPT !.then = next], directoryHandleCache[getKey(path)])
    ELSE [o EXCEPT !.pc = "walk", !.walk = path, !.i = 0, !.then = next]

\* getFileHandle(path) up to its first await.
StartFile(o, path) ==
    IF getKey(path) \in DOMAIN fileHandleCache
    THEN AfterFile(o, fileHandleCache[getKey(path)])
    ELSE StartDir([o EXCEPT !.fpath = path], ButLast(path), "file")

\* --------------------------------------------------------------- the calls
CanIssue(p) ==
    /\ p \in mode.procs
    /\ ~InFlight(p)
    /\ nops < mode.maxOps

\* A call starts: its history fields are taken, and the calls in flight on
\* a related key are no longer alone on it.
Begin(p, kind, k, b) ==
    [Idle EXCEPT
        !.kind = kind, !.key = k, !.bin = b,
        !.clean = ~\E q \in Procs \ {p} :
                      InFlight(q) /\ Mutator(op[q]) /\ Related(op[q].key, k),
        !.was = SavedKeys,
        !.absent0 = getFilePath(k) \notin DOMAIN fs,
        !.snap = IF kind \in {"remove", "removeRange"} THEN fs ELSE EmptyStore,
        !.overlap = \E q \in Procs \ {p} :
                      InFlight(q) /\ op[q].kind = "save" /\ kind = "save"
                      /\ op[q].key = k,
        !.prev = IF kind = "load" /\ Returned(p, "removeRange")
                    /\ op[p].res.st = "ok"
                 THEN op[p].key ELSE << >>]

\* A read of key k: a load of k, or a loadRange over a prefix of k.
Reads(o, k) ==
    \/ o.kind = "load" /\ o.key = k
    \/ o.kind = "loadRange" /\ IsPrefix(o.key, k)

Others(p, kind, k) ==
    [q \in Procs \ {p} |->
        IF InFlight(q) /\ Related(op[q].key, k)
           /\ kind \in {"save", "remove", "removeRange"}
        THEN [op[q] EXCEPT !.clean = FALSE,
                           !.overlap = @ \/ (kind = "save" /\ op[q].kind = "save"
                                             /\ op[q].key = k),
                           !.overRead = @ \/ (kind = "remove" /\ Reads(op[q], k))]
        ELSE op[q]]

\* Two calls are inside getFileHandle for the same path, or inside the walk
\* of getDirectoryHandle for the same path, at the same time: neither found
\* a memoized handle.
Racing(a, b) ==
    \/ a.pc = "walk" /\ b.pc = "walk" /\ a.walk = b.walk
    \/ /\ a.pc \in {"walk", "getFileHandle"} /\ b.pc \in {"walk", "getFileHandle"}
       /\ a.then = "file" /\ b.then = "file"
       /\ a.fpath = b.fpath

\* The calls in flight once caller p has called: o is p's call, rest the
\* other callers' calls.
Join(p, o, rest) ==
    [q \in Procs |->
        IF q = p THEN [o EXCEPT !.raced = \E r \in Procs \ {p} : Racing(o, op[r])]
        ELSE [rest[q] EXCEPT !.raced = @ \/ Racing(o, op[q])]]

Same(p) == [q \in Procs \ {p} |-> op[q]]

\* remove(k) returns while a read of k that was in flight when remove was
\* called is still in flight.
OverRead(p, k) ==
    \E q \in Procs \ {p} : InFlight(q) /\ op[q].overRead /\ Reads(op[q], k)

cachedKeys(keyPrefix) ==
    {key \in DOMAIN cache : startsWith(key, getKey(keyPrefix))}

\* load, lines 15-19: the cache lookup, then getFileHandle up to its await.
LoadStart(o) ==
    IF getKey(o.key) \in DOMAIN cache
    THEN Finish(o, Ok(cache[getKey(o.key)]))
    ELSE StartFile(o, getFilePath(o.key))

IssueLoad(p, k) ==
    /\ CanIssue(p)
    /\ op' = Join(p, LoadStart(Begin(p, "load", k, << >>)), Same(p))
    /\ nops' = nops + 1
    /\ UNCHANGED <<storeVars, cacheVars, inWorker, histVars, restarts, faults, mode, px, codec>>

\* save, lines 31-34: the cache is written, then getFileHandle up to its await.
SaveStart(o) == StartFile(o, getFilePath(o.key))

\* Faulty variant of IssueSave: the cache is not written before the store
\* calls.
IssueSave_cacheLater(p, k, b) ==
    /\ CanIssue(p)
    /\ rec' = RecAtIssue("save", k)
    /\ ranged' = {x \in ranged : ~Related(x, k)}
    /\ op' = Join(p, SaveStart(Begin(p, "save", k, b)), Others(p, "save", k))
    /\ nops' = nops + 1
    /\ UNCHANGED <<storeVars, cacheVars, inWorker,
                   lastWrite, restarts, faults, mode, px, codec>>

IssueSave(p, k, b) ==
    /\ CanIssue(p)
    /\ cache' = Put(cache, getKey(k), b)
    /\ rec' = RecAtIssue("save", k)
    /\ ranged' = {x \in ranged : ~Related(x, k)}
    /\ op' = Join(p, SaveStart(Begin(p, "save", k, b)), Others(p, "save", k))
    /\ nops' = nops + 1
    /\ UNCHANGED <<storeVars, fileHandleCache, directoryHandleCache, inWorker,
                   lastWrite, restarts, faults, mode, px, codec>>

\* remove, lines 49-54.
RemoveStart(o) ==
    StartDir([o EXCEPT !.name = Last(getFilePath(o.key))],
             ButLast(getFilePath(o.key)), "remove")

IssueRemove(p, k) ==
    /\ CanIssue(p)
    /\ cache' = Drop(cache, {getKey(k)})
    /\ rec' = RecAtIssue("remove", k)
    /\ ranged' = {x \in ranged : ~Related(x, k)}
    /\ op' = Join(p, RemoveStart(Begin(p, "remove", k, << >>)),
                   Others(p, "remove", k))
    /\ nops' = nops + 1
    /\ UNCHANGED <<storeVars, fileHandleCache, directoryHandleCache, inWorker,
                   lastWrite, restarts, faults, mode, px, codec>>

\* loadRange, lines 59-71: the cached chunks, then getDirectoryHandle.
\* One chunk per cached key, its key rebuilt by getKeyArray(key.split('-')).
RECURSIVE CachedChunks(_)
CachedChunks(S) ==
    IF S = {} THEN EmptyBag
    ELSE LET key == CHOOSE y \in S : TRUE
         IN  BagAdd(CachedChunks(S \ {key}),
                    Chunk(getKeyArray(split(key)), cache[key]))

LoadRangeStart(o) ==
    LET path == getFilePath(o.key)
        hit == cachedKeys(o.key)
    IN  StartDir([o EXCEPT !.skip = hit, !.chunks = CachedChunks(hit),
                           !.fpath = path],
                 path, "entries")

IssueLoadRange(p, k) ==
    /\ CanIssue(p)
    /\ op' = Join(p, LoadRangeStart(Begin(p, "loadRange", k, << >>)), Same(p))
    /\ nops' = nops + 1
    /\ UNCHANGED <<storeVars, cacheVars, inWorker, histVars, restarts, faults, mode, px, codec>>

\* removeRange, lines 89-91.
RemoveRangeStart(o) ==
    StartDir([o EXCEPT !.name = Last(getFilePath(o.key))],
             ButLast(getFilePath(o.key)), "removeRange")

IssueRemoveRange(p, k) ==
    /\ CanIssue(p)
    /\ cache' = Drop(cache, cachedKeys(k))
    /\ rec' = RecAtIssue("removeRange", k)
    /\ ranged' = {x \in ranged : ~Related(x, k)}
    /\ op' = Join(p, RemoveRangeStart(Begin(p, "removeRange", k, << >>)),
                   Others(p, "removeRange", k))
    /\ nops' = nops + 1
    /\ UNCHANGED <<storeVars, fileHandleCache, directoryHandleCache, inWorker,
                   lastWrite, restarts, faults, mode, px, codec>>

\* --------------------------------------------------------------- the steps
Step(p, o) == op' = [op EXCEPT ![p] = o]

\* getDirectoryHandle, lines 115-120: one level of the walk from the root.
WalkDirectory(p) ==
    /\ op[p].pc = "walk"
    /\ LET o == op[p]
           r == StoreGetDirectory(fs, SubSeq(o.walk, 1, o.i), o.walk[o.i + 1])
       IN  IF r.err # NoErr
           THEN /\ Step(p, Reject(o, r.err))
                /\ UNCHANGED <<fs, directoryHandleCache>>
           ELSE /\ fs' = r.store
                /\ IF o.i + 1 < Len(o.walk)
                   THEN /\ Step(p, [o EXCEPT !.i = o.i + 1])
                        /\ UNCHANGED directoryHandleCache
                   ELSE /\ directoryHandleCache' =
                               Put(directoryHandleCache, getKey(o.walk), o.walk)
                        /\ Step(p, AfterDir(o, o.walk))
    /\ UNCHANGED <<locks, cache, fileHandleCache, inWorker, histVars, countVars, mode, px, codec>>

\* Faulty variant of GetFileHandle: the file is created anew, an existing
\* record is replaced by an empty file.
GetFileHandle_truncate(p) ==
    /\ op[p].pc = "getFileHandle"
    /\ LET o == op[p]
           r == StoreGetFile(fs, o.dir, Last(o.fpath))
       IN  IF r.err # NoErr
           THEN /\ Step(p, Reject(o, r.err))
                /\ UNCHANGED <<fs, fileHandleCache>>
           ELSE /\ fs' = Put(fs, Append(o.dir, Last(o.fpath)), FileEntry(<< >>))
                /\ fileHandleCache' =
                       Put(fileHandleCache, getKey(o.fpath), Append(o.dir, Last(o.fpath)))
                /\ Step(p, AfterFile(o, Append(o.dir, Last(o.fpath))))
    /\ UNCHANGED <<locks, cache, directoryHandleCache, inWorker, histVars, countVars, mode, px, codec>>

\* getFileHandle, lines 106-108.
GetFileHandle(p) ==
    /\ op[p].pc = "getFileHandle"
    /\ LET o == op[p]
           r == StoreGetFile(fs, o.dir, Last(o.fpath))
       IN  IF r.err # NoErr
           THEN /\ Step(p, Reject(o, r.err))
                /\ UNCHANGED <<fs, fileHandleCache>>
           ELSE /\ fs' = r.store
                /\ fileHandleCache' =
                       Put(fileHandleCache, getKey(o.fpath), Append(o.dir, Last(o.fpath)))
                /\ Step(p, AfterFile(o, Append(o.dir, Last(o.fpath))))
    /\ UNCHANGED <<locks, cache, directoryHandleCache, inWorker, histVars, countVars, mode, px, codec>>

\* load, lines 20-21 and 26: getFile() takes a snapshot of the file.
LoadGetFile(p) ==
    /\ op[p].pc = "getFile"
    /\ LET o == op[p] IN
       IF ~IsFile(fs, o.handle) THEN Step(p, Reject(o, "NotFoundError"))
       ELSE IF Len(fs[o.handle].bytes) # 0
            THEN Step(p, [o EXCEPT !.pc = "arrayBuffer", !.file = fs[o.handle].bytes])
            ELSE Step(p, Finish(o, OkAbsent))
    /\ UNCHANGED <<storeVars, cacheVars, inWorker, histVars, countVars, mode, px, codec>>

\* load, lines 22-24.
LoadArrayBuffer(p) ==
    /\ op[p].pc = "arrayBuffer"
    /\ cache' = Put(cache, getKey(op[p].key), op[p].file)
    /\ Step(p, Finish(op[p], Ok(op[p].file)))
    /\ UNCHANGED <<storeVars, fileHandleCache, directoryHandleCache, inWorker,
                   histVars, countVars, mode, px, codec>>

Hold(l) == IF l \in DOMAIN locks THEN [locks EXCEPT ![l] = @ + 1] ELSE Put(locks, l, 1)
Release(l) ==
    IF l \notin DOMAIN locks THEN locks
    ELSE IF locks[l] = 1 THEN Drop(locks, {l})
    ELSE [locks EXCEPT ![l] = @ - 1]

\* save, line 37 (worker) or line 42 (window): the handle is opened.
SaveOpen(p) ==
    /\ op[p].pc = "open"
    /\ LET o == op[p] IN
       IF ~IsFile(fs, o.handle)
       THEN /\ Step(p, Reject(o, "NotFoundError"))
            /\ UNCHANGED locks
       ELSE /\ locks' = Hold(o.handle)
            /\ Step(p, [o EXCEPT !.pc = "write"])
    /\ UNCHANGED <<fs, cacheVars, inWorker, histVars, countVars, mode, px, codec>>

\* save, line 38 (worker: the bytes land in the file at offset 0) or
\* line 43 (window: the bytes go to the writable's own buffer).
SaveWrite(p) ==
    /\ op[p].pc = "write"
    /\ LET o == op[p] IN
       IF inWorker
       THEN /\ fs' = [fs EXCEPT ![o.handle].bytes = WriteAtZero(@, o.bin)]
            /\ lastWrite' = Put(lastWrite, o.handle, o.bin)
            /\ Step(p, [o EXCEPT !.pc = "flush"])
       ELSE /\ Step(p, [o EXCEPT !.pc = "close", !.file = o.bin])
            /\ UNCHANGED <<fs, lastWrite>>
    /\ UNCHANGED <<locks, cacheVars, inWorker, rec, ranged, countVars, mode, px, codec>>

\* save, line 39 (worker only).
SaveFlush(p) ==
    /\ op[p].pc = "flush"
    /\ Step(p, [op[p] EXCEPT !.pc = "close"])
    /\ UNCHANGED <<storeVars, cacheVars, inWorker, histVars, countVars, mode, px, codec>>

\* save, line 40 (worker) or line 44 (window: the buffer replaces the file).
SaveClose(p) ==
    /\ op[p].pc = "close"
    /\ LET o == op[p] IN
       /\ locks' = Release(o.handle)
       /\ IF inWorker
          THEN /\ Step(p, Finish(o, Ok(<< >>)))
               /\ rec' = RecAfter(Finish(o, Ok(<< >>)))
               /\ UNCHANGED <<fs, lastWrite>>
          ELSE IF ~IsFile(fs, o.handle)
          THEN /\ Step(p, Reject(o, "NotFoundError"))
               /\ UNCHANGED <<fs, lastWrite, rec>>
          ELSE /\ fs' = [fs EXCEPT ![o.handle].bytes = o.file]
               /\ lastWrite' = Put(lastWrite, o.handle, o.bin)
               /\ Step(p, Finish(o, Ok(<< >>)))
               /\ rec' = RecAfter(Finish(o, Ok(<< >>)))
    /\ UNCHANGED <<cacheVars, inWorker, ranged, countVars, mode, px, codec>>

\* Faulty variant of RemoveEntry: a failed removeEntry is caught and the
\* call reports success.
RemoveEntry_swallow(p) ==
    /\ op[p].pc = "removeEntry"
    /\ op[p].kind = "remove"
    /\ LET o == op[p]
           r == StoreRemoveEntry(fs, locks, o.dir, o.name)
           o2 == Finish([o EXCEPT !.failed = r.err], Ok(<< >>))
       IN  /\ fs' = r.store
           /\ Step(p, o2)
           /\ rec' = RecAfter(o2)
    /\ UNCHANGED <<locks, cacheVars, inWorker, ranged, lastWrite, countVars, mode, px, codec>>

\* remove, line 55.
RemoveEntry(p) ==
    /\ op[p].pc = "removeEntry"
    /\ op[p].kind = "remove"
    /\ LET o == [op[p] EXCEPT !.overRead = OverRead(p, op[p].key)]
           r == StoreRemoveEntry(fs, locks, o.dir, o.name)
           o2 == IF r.err # NoErr THEN Reject(o, r.err) ELSE Finish(o, Ok(<< >>))
       IN  /\ fs' = r.store
           /\ Step(p, o2)
           /\ rec' = RecAfter(o2)
    /\ UNCHANGED <<locks, cacheVars, inWorker, ranged, lastWrite, countVars, mode, px, codec>>

\* removeRange, line 92.
RemoveRangeEntry(p) ==
    /\ op[p].pc = "removeEntry"
    /\ op[p].kind = "removeRange"
    /\ LET o == op[p]
           r == StoreRemoveEntry(fs, locks, o.dir, o.name)
           o2 == IF r.err # NoErr THEN Reject(o, r.err) ELSE Finish(o, Ok(<< >>))
       IN  /\ fs' = r.store
           /\ Step(p, o2)
           /\ rec' = RecAfter(o2)
           /\ ranged' = RangedAfter(o2)
    /\ UNCHANGED <<locks, cacheVars, inWorker, lastWrite, countVars, mode, px, codec>>

\* loadRange, lines 72-76: the recursive walk, then every mapped callback
\* runs up to its first await (the skip test and the getFile() call).
Pending(l, k) == [loc |-> l, key |-> k, stage |-> "getFile", bytes |-> << >>]

LoadRangeEntries(p) ==
    /\ op[p].pc = "entries"
    /\ LET o == op[p]
           found == {Pending(l, o.fpath \o SubSeq(l, Len(o.dir) + 1, Len(l))) :
                        l \in FilesUnder(fs, o.dir)}
           todo == {f \in found : getKey(f.key) \notin o.skip}
       IN  IF ~IsDir(fs, o.dir) THEN Step(p, Reject(o, "NotFoundError"))
           ELSE IF todo = {} THEN Step(p, Finish(o, Ok(<< >>)))
           ELSE Step(p, [o EXCEPT !.pc = "read", !.pending = todo])
    /\ UNCHANGED <<storeVars, cacheVars, inWorker, histVars, countVars, mode, px, codec>>

\* Promise.all settles: rejected by the first rejection, fulfilled when
\* every callback has returned.
Settle(o) ==
    IF o.pending = {}
    THEN Finish(o, IF o.res.st = "none" THEN Ok(<< >>) ELSE o.res)
    ELSE o

FailRead(o, f, e) ==
    Settle([o EXCEPT !.pending = @ \ {f},
                     !.res = IF @.st = "none" THEN Rejected(e) ELSE @,
                     !.failed = IF @ = NoErr THEN e ELSE @,
                     !.failedLoc = IF o.failed = NoErr THEN f.loc ELSE @])

\* loadRange, line 77: handle.getFile() of one file.
LoadRangeGetFile(p, f) ==
    /\ op[p].pc = "read"
    /\ f \in op[p].pending
    /\ f.stage = "getFile"
    /\ LET o == op[p] IN
       IF ~IsFile(fs, f.loc) THEN Step(p, FailRead(o, f, "NotFoundError"))
       ELSE Step(p, [o EXCEPT !.pending =
                (@ \ {f}) \cup {[f EXCEPT !.stage = "arrayBuffer",
                                          !.bytes = fs[f.loc].bytes]}])
    /\ UNCHANGED <<storeVars, cacheVars, inWorker, histVars, countVars, mode, px, codec>>

\* loadRange, lines 77-82: arrayBuffer() of one file, the cache entry under
\* getKey(key) and the chunk.
LoadRangeArrayBuffer(p, f) ==
    /\ op[p].pc = "read"
    /\ f \in op[p].pending
    /\ f.stage = "arrayBuffer"
    /\ cache' = Put(cache, getKey(f.key), f.bytes)
    /\ Step(p, Settle([op[p] EXCEPT
                          !.pending = @ \ {f},
                          !.chunks = BagAdd(@, Chunk(getKeyArray(f.key), f.bytes))]))
    /\ UNCHANGED <<storeVars, fileHandleCache, directoryHandleCache, inWorker,
                   histVars, countVars, mode, px, codec>>

\* A new adapter instance over the same store (constructor, lines 5-12).
Restart ==
    /\ \A q \in Procs : ~InFlight(q)
    /\ restarts < mode.maxRestarts
    /\ restarts' = restarts + 1
    /\ cache' = EmptyMap
    /\ fileHandleCache' = EmptyMap
    /\ directoryHandleCache' = EmptyMap
    /\ locks' = EmptyBag
    /\ op' = [q \in Procs |-> Idle]
    /\ rec' = [x \in AllKeys |->
                 IF rec[x].st \in {"removed", "rangeRemoved"} THEN Other ELSE rec[x]]
    /\ ranged' = {}
    /\ UNCHANGED <<fs, inWorker, lastWrite, nops, faults, mode, px, codec>>

\* ------------------------------------------------------------ store faults
\* Any awaited store call may fail (quota, permission, I/O fault).
StorePcs == {"walk", "getFileHandle", "getFile", "arrayBuffer", "open", "write",
             "flush", "close", "removeEntry", "entries"}

\* A writable that fails is aborted and gives its lock back; an access
\* handle that is not closed keeps it.
LocksAfterFault(o) ==
    IF o.pc \in {"write", "close"} /\ ~inWorker THEN Release(o.handle) ELSE locks

StoreFault(p) ==
    /\ faults < mode.maxFaults
    /\ op[p].pc \in StorePcs
    /\ faults' = faults + 1
    /\ locks' = LocksAfterFault(op[p])
    /\ Step(p, Reject(op[p], "IOFault"))
    /\ UNCHANGED <<fs, cacheVars, inWorker, histVars, nops, restarts, mode, px, codec>>

ReadFault(p, f) ==
    /\ faults < mode.maxFaults
    /\ op[p].pc = "read"
    /\ f \in op[p].pending
    /\ faults' = faults + 1
    /\ Step(p, FailRead(op[p], f, "IOFault"))
    /\ UNCHANGED <<storeVars, cacheVars, inWorker, histVars, nops, restarts, mode, px, codec>>

\* ------------------------------------------------- OPFSWorkerStorageAdapter
\* px.worker is the promise of the remote instance; px.waiting holds the
\* then-callbacks not yet run; px.chan is the message port to the worker.
Methods == {"load", "save", "remove", "loadRange", "removeRange"}

PxInit ==
    [worker |-> "pending", instances |-> 0, calls |-> << >>, waiting |-> << >>,
     chan |-> << >>, log |-> << >>, running |-> {}, remoteRes |-> EmptyMap,
     replies |-> {}, callerRes |-> EmptyMap, early |-> {}]

Call(m, k, b) == [method |-> m, key |-> k, bin |-> b]

\* Faulty variant of workerProxy: the closure forwards every call as a load.
workerProxy_alwaysLoad(id, c) ==
    [id |-> id, method |-> "load", key |-> c.key, bin |-> c.bin]

\* workerProxy, line 18: w[method](...args), the call as it is posted.
workerProxy(id, c) == [id |-> id, method |-> c.method, key |-> c.key, bin |-> c.bin]

\* The outcomes a call on the remote OPFSStorageAdapter may have.
RemoteOutcomes(m) ==
    IF m = "load" THEN {Ok(<<1>>), OkAbsent, Rejected("NotFoundError")}
    ELSE {Ok(<< >>), Rejected("NotFoundError")}

\* lines 21-25 with line 18: a proxied method is called; the callback is
\* handed to this.worker.then and runs once the promise is fulfilled.
PxCall(m, k, b) ==
    /\ Len(px.calls) < mode.maxCalls
    /\ px' = [px EXCEPT !.calls = Append(@, Call(m, k, b)),
                        !.waiting = Append(@, Len(px.calls) + 1),
                        !.early = IF px.worker = "pending"
                                  THEN @ \cup {Len(px.calls) + 1} ELSE @]
    /\ UNCHANGED coreVars

\* line 14: new OPFSWorker(directory) is answered, the promise is fulfilled.
PxConstructed ==
    /\ px.worker = "pending"
    /\ px' = [px EXCEPT !.worker = "ready", !.instances = @ + 1]
    /\ UNCHANGED coreVars

\* line 18: the oldest callback runs and posts its call.
PxForward ==
    /\ px.worker = "ready"
    /\ px.waiting # << >>
    /\ px' = [px EXCEPT
                 !.waiting = Tail(@),
                 !.chan = Append(@, workerProxy(Head(px.waiting),
                                                px.calls[Head(px.waiting)]))]
    /\ UNCHANGED coreVars

\* The worker takes the oldest message and calls the method on the instance.
PxDeliver ==
    /\ px.chan # << >>
    /\ px' = [px EXCEPT !.chan = Tail(@),
                        !.log = Append(@, Head(px.chan)),
                        !.running = @ \cup {Head(px.chan).id}]
    /\ UNCHANGED coreVars

\* The remote call settles and its outcome is posted back.
PxSettle(id, r) ==
    /\ id \in px.running
    /\ r \in RemoteOutcomes(px.calls[id].method)
    /\ px' = [px EXCEPT !.running = @ \ {id},
                        !.remoteRes = Put(@, id, r),
                        !.replies = @ \cup {[id |-> id, res |-> r]}]
    /\ UNCHANGED coreVars

\* The reply reaches the caller's promise.
PxReply(m) ==
    /\ m \in px.replies
    /\ px' = [px EXCEPT !.replies = @ \ {m},
                        !.callerRes = Put(@, m.id, m.res)]
    /\ UNCHANGED coreVars

\* ------------------------------------------------------ the codec on its own
\* getFilePath and getKeyArray applied to a pair of storage keys: every key
\* of up to MaxSegs segments, first segments of one to four characters.
sBA == <<"b", "a">>
sCD == <<"c", "d">>
CodecSegments == {sC, sD, sAB, sBA, sCD, sABC, sABCD}
StorageKeys == UNION {[1..n -> CodecSegments] : n \in 1..MaxSegs}

NoCodec ==
    [pc |-> "idle", key |-> << >>, other |-> << >>, path |-> << >>,
     otherPath |-> << >>, back |-> << >>]

\* getFilePath, lines 126-129, applied to both keys.
EncodePath ==
    /\ codec.pc = "keys"
    /\ codec' = [codec EXCEPT !.pc = "encoded",
                              !.path = getFilePath(codec.key),
                              !.otherPath = getFilePath(codec.other)]
    /\ UNCHANGED <<fs, locks, cache, fileHandleCache, directoryHandleCache,
                   inWorker, op, rec, ranged, lastWrite, nops, restarts, faults,
                   mode, px>>

\* getKeyArray, lines 131-134, applied to the path of the first key.
DecodePath ==
    /\ codec.pc = "encoded"
    /\ codec' = [codec EXCEPT !.pc = "decoded", !.back = getKeyArray(codec.path)]
    /\ UNCHANGED <<fs, locks, cache, fileHandleCache, directoryHandleCache,
                   inWorker, op, rec, ranged, lastWrite, nops, restarts, faults,
                   mode, px>>

\* ---------------------------------------------------------- specifications
Mode(procs, keys, payloads, ops, rs, fl, calls) ==
    [procs |-> procs, keys |-> keys, payloads |-> payloads, maxOps |-> ops,
     maxRestarts |-> rs, maxFaults |-> fl, maxCalls |-> calls]

InitCore(m) ==
    /\ fs = EmptyStore
    /\ locks = EmptyBag
    /\ cache = EmptyMap
    /\ fileHandleCache = EmptyMap
    /\ directoryHandleCache = EmptyMap
    /\ inWorker \in BOOLEAN
    /\ op = [q \in Procs |-> Idle]
    /\ rec = [x \in AllKeys |-> Never]
    /\ ranged = {}
    /\ lastWrite = EmptyMap
    /\ nops = 0
    /\ restarts = 0
    /\ faults = 0
    /\ mode = m
    /\ px = PxInit

InitWith(m) == InitCore(m) /\ codec = NoCodec

Issue ==
    \E p \in Procs, k \in mode.keys :
        \/ IssueLoad(p, k)
        \/ \E b \in mode.payloads : IssueSave(p, k, b)
        \/ IssueRemove(p, k)
        \/ IssueLoadRange(p, k)
        \/ IssueRemoveRange(p, k)

Steps ==
    \E p \in Procs :
        \/ WalkDirectory(p)
        \/ GetFileHandle(p)
        \/ LoadGetFile(p)
        \/ LoadArrayBuffer(p)
        \/ SaveOpen(p)
        \/ SaveWrite(p)
        \/ SaveFlush(p)
        \/ SaveClose(p)
        \/ RemoveEntry(p)
        \/ RemoveRangeEntry(p)
        \/ LoadRangeEntries(p)
        \/ \E f \in op[p].pending : LoadRangeGetFile(p, f)
        \/ \E f \in op[p].pending : LoadRangeArrayBuffer(p, f)

Faults ==
    \E p \in Procs :
        \/ StoreFault(p)
        \/ \E f \in op[p].pending : ReadFault(p, f)

\* One caller that awaits every call; the adapter may be constructed anew.
Init == InitWith(Mode({1}, AllKeys, AllPayloads, MaxOps, MaxRestarts, 0, 0))
Next == Issue \/ Steps \/ Restart
Spec == Init /\ [][Next]_vars

\* Two callers whose calls overlap.
ConcKeys == {K_abc_d, K_abc}
ConcPayloads == {<<1>>, <<2, 2>>}
InitConc == InitWith(Mode({1, 2}, ConcKeys, ConcPayloads, MaxOpsConc, MaxRestarts, 0, 0))
NextConc == Issue \/ Steps \/ Restart
SpecConc == InitConc /\ [][NextConc]_vars

\* One caller, and a store that may fail any awaited call.
FaultKeys == {K_abc_d, K_abc_e, K_abc}
FaultPayloads == {<<1>>, <<2, 2>>}
InitFault == InitWith(Mode({1}, FaultKeys, FaultPayloads, MaxOpsFault, MaxRestarts, MaxFaults, 0))
NextFault == Issue \/ Steps \/ Faults \/ Restart
SpecFault == InitFault /\ [][NextFault]_vars

\* One caller, one adapter instance and longer runs on a prefix, a key under
\* it and a key whose encoded form merely starts with the encoded prefix.
RangeKeys == {K_abc, K_abc_d, K_abcd}
RangePayloads == {<<1>>, <<2, 2>>}
InitRange == InitWith(Mode({1}, RangeKeys, RangePayloads, MaxOpsRange, 0, 0, 0))
NextRange == Issue \/ Steps
SpecRange == InitRange /\ [][NextRange]_vars

\* Two callers whose handle resolutions overlap.
RacePayloads == {<<1>>}
InitRace == InitWith(Mode({1, 2}, ConcKeys, RacePayloads, MaxOpsRace, MaxRestarts, 0, 0))
NextRace == Issue \/ Steps \/ Restart
SpecRace == InitRace /\ [][NextRace]_vars

\* The proxy in front of a worker.
ProxyKeys == {K_abc_d}
ProxyPayloads == {<<1>>}
InitProxy == InitWith(Mode({}, ProxyKeys, ProxyPayloads, 0, 0, 0, MaxCalls))
NextProxy ==
    \/ \E m \in Methods, k \in mode.keys, b \in mode.payloads : PxCall(m, k, b)
    \/ PxConstructed
    \/ PxForward
    \/ PxDeliver
    \/ \E id \in px.running :
           \E r \in RemoteOutcomes(px.calls[id].method) : PxSettle(id, r)
    \/ \E m \in px.replies : PxReply(m)
SpecProxy == InitProxy /\ [][NextProxy]_vars

\* The codec applied to any two storage keys.
InitCodec ==
    /\ InitCore(Mode({}, {}, {}, 0, 0, 0, 0))
    /\ codec \in {[NoCodec EXCEPT !.pc = "keys", !.key = k, !.other = k2] :
                      k \in StorageKeys, k2 \in StorageKeys}
NextCodec == EncodePath \/ DecodePath
SpecCodec == InitCodec /\ [][NextCodec]_vars

\* ------------------------------------------------------------------ claims
Quiescent == \A q \in Procs : ~InFlight(q)
Files(store) == {l \in DOMAIN store : store[l].kind = "file"}
SameRecords(a, b) == Files(a) = Files(b) /\ \A l \in Files(a) : a[l].bytes = b[l].bytes

\* C1: once save(K, B) has completed and no other operation on K has been
\* issued, load(K) returns B, on the same instance and on a fresh one.
C1_SaveThenLoad ==
    \A p \in Procs :
        (Returned(p, "load") /\ rec[op[p].key].st = "saved")
            => op[p].res = Ok(rec[op[p].key].val)

\* C2: loadRange(P) returns exactly one chunk per saved key under P, with
\* that key and its last saved bytes, and no key twice.
SavedUnder(P) == {x \in AllKeys : IsPrefix(P, x) /\ x # P /\ rec[x].st = "saved"}
SettledUnder(P) ==
    \A x \in AllKeys : (IsPrefix(P, x) /\ x # P) => rec[x].st \in {"saved", "never"}

C2_LoadRangeExact ==
    \A p \in Procs :
        (Returned(p, "loadRange") /\ SavedUnder(op[p].key) # {}
         /\ SettledUnder(op[p].key))
            => /\ op[p].res.st = "ok"
               /\ DOMAIN op[p].chunks =
                      {Chunk(x, rec[x].val) : x \in SavedUnder(op[p].key)}
               /\ \A c \in DOMAIN op[p].chunks : op[p].chunks[c] = 1

\* C3: after save(K, B) and remove(K) on one instance, load(K) completes
\* and returns absent.
C3_RemoveThenLoad ==
    \A p \in Procs :
        (Returned(p, "load") /\ rec[op[p].key].st = "removed")
            => op[p].res = OkAbsent

\* C4: after removeRange(P), loadRange(P) returns an empty list and load(K)
\* returns absent for every key K that was under P.
C4_RemoveRangeThenRead ==
    \A p \in Procs :
        /\ (Returned(p, "loadRange") /\ op[p].key \in ranged)
               => (op[p].res.st = "ok" /\ op[p].chunks = EmptyBag)
        /\ (Returned(p, "load") /\ rec[op[p].key].st = "rangeRemoved")
               => op[p].res = OkAbsent

\* C5: load(K) of a key that was never saved completes with absent.
C5_LoadNeverSaved ==
    \A p \in Procs :
        (Returned(p, "load") /\ rec[op[p].key].st = "never")
            => op[p].res = OkAbsent

\* C6: remove(K) of a key with no entry on disk completes as a no-op: it is
\* not rejected and the records of the other keys are unchanged.
C6_RemoveAbsent ==
    \A p \in Procs :
        (Returned(p, "remove") /\ op[p].absent0)
            => (op[p].res.st = "ok" /\ SameRecords(fs, op[p].snap))

\* C7: with no call in flight, every cache entry is the on-disk record of
\* the key it is indexed by.
C7_CacheCoherent ==
    Quiescent =>
        \A k \in DOMAIN cache :
            /\ IsFile(fs, getFilePath(split(k)))
            /\ fs[getFilePath(split(k))].bytes = cache[k]

\* C8: when two saves to one key overlap, after both have completed the
\* cache entry and the on-disk record are both the payload of the save whose
\* store write completed last.
C8_ConcurrentSaves ==
    \A p, q \in Procs :
        (/\ p # q
         /\ Returned(p, "save") /\ Returned(q, "save")
         /\ op[p].key = op[q].key
         /\ op[p].overlap /\ op[q].overlap
         /\ op[p].res.st = "ok" /\ op[q].res.st = "ok")
            => LET path == getFilePath(op[p].key)
                   k == getKey(op[p].key)
               IN  /\ k \in DOMAIN cache
                   /\ IsFile(fs, path)
                   /\ path \in DOMAIN lastWrite
                   /\ cache[k] = lastWrite[path]
                   /\ fs[path].bytes = lastWrite[path]

\* C9: a failed store step ends the call rejected with that failure; the
\* call never reports success and never issues the failed step again.
C9_FailurePropagates ==
    \A p \in Procs :
        op[p].failed # NoErr
            => /\ op[p].res = Rejected(op[p].failed)
               /\ \/ op[p].pc = "done"
                  \/ /\ op[p].kind = "loadRange"
                     /\ op[p].pc = "read"
                     /\ \A f \in op[p].pending : f.loc # op[p].failedLoc

C9_Witness ==
    \E p \in Procs :
        /\ Returned(p, "loadRange")
        /\ op[p].failed = "IOFault"
        /\ op[p].res = Rejected("IOFault")

\* C10: every call made on the proxy reaches the one remote instance exactly
\* once, with its arguments, in the order of the calls, and its caller gets
\* the outcome the remote call had.
PxQuiet ==
    /\ px.worker = "ready"
    /\ px.waiting = << >>
    /\ px.chan = << >>
    /\ px.running = {}
    /\ px.replies = {}

C10_ProxyRefines ==
    /\ px.instances = (IF px.worker = "ready" THEN 1 ELSE 0)
    /\ Len(px.log) <= Len(px.calls)
    /\ \A i \in 1..Len(px.log) :
           px.log[i] = [id |-> i, method |-> px.calls[i].method,
                        key |-> px.calls[i].key, bin |-> px.calls[i].bin]
    /\ \A id \in DOMAIN px.callerRes :
           /\ id \in DOMAIN px.remoteRes
           /\ px.callerRes[id] = px.remoteRes[id]
    /\ PxQuiet => /\ Len(px.log) = Len(px.calls)
                  /\ DOMAIN px.callerRes = 1..Len(px.calls)

C10_Witness ==
    /\ PxQuiet
    /\ Len(px.calls) >= 2
    /\ 1 \in px.early
    /\ px.calls[1].method # px.calls[2].method
    /\ DOMAIN px.callerRes = 1..Len(px.calls)

\* C11: decoding the path of a storage key gives the key back, and the paths
\* of two different storage keys are different.
C11_CodecRoundTrip ==
    /\ codec.pc = "decoded" => codec.back = codec.key
    /\ (codec.pc \in {"encoded", "decoded"} /\ codec.key # codec.other)
           => codec.path # codec.otherPath

C11_Witness ==
    /\ codec.pc = "decoded"
    /\ Len(codec.key[1]) < 2
    /\ Len(codec.key) = 2
    /\ codec.back = codec.key
    /\ codec.other = <<codec.key[1] \o codec.key[2]>>
    /\ codec.path # codec.otherPath

\* C12: a load of a key that was never saved never returns bytes, whatever
\* was saved, loaded or ranged over under other keys.
C12_KeyIsolation ==
    \A p \in Procs :
        (Returned(p, "load") /\ rec[op[p].key].st = "never"
         /\ op[p].res.st = "ok")
            => ~op[p].res.some

\* C13: every chunk returned by loadRange(P) has a key of which P is a
\* prefix segment by segment.
C13_ChunksUnderPrefix ==
    \A p \in Procs :
        (Returned(p, "loadRange") /\ op[p].res.st = "ok")
            => \A c \in DOMAIN op[p].chunks : IsPrefix(op[p].key, c.key)

\* C14: loadRange(P) returns no chunk for a key whose record is absent (never
\* saved, or removed), also after a load of that key has touched its path.
C14_RangeAgreesWithLoad ==
    \A p \in Procs :
        (Returned(p, "loadRange") /\ op[p].res.st = "ok")
            => \A c \in DOMAIN op[p].chunks :
                   c.key \in AllKeys
                       => rec[c.key].st \notin {"never", "removed", "rangeRemoved"}

\* C15: remove(K) leaves the on-disk record of every other saved key as it was.
C15_RemoveFrame ==
    \A p \in Procs :
        Returned(p, "remove")
            => \A x \in op[p].was \ {op[p].key} :
                   IsFile(op[p].snap, getFilePath(x))
                       => /\ IsFile(fs, getFilePath(x))
                          /\ fs[getFilePath(x)].bytes = op[p].snap[getFilePath(x)].bytes

\* C16: removeRange(P) leaves the on-disk record of every saved key that is
\* not under P as it was, and a load of such a key after it returns the bytes
\* last saved for the key.
C16_RemoveRangeFrame ==
    \A p \in Procs :
        /\ Returned(p, "removeRange")
               => \A x \in op[p].was :
                      (~IsPrefix(op[p].key, x) /\ IsFile(op[p].snap, getFilePath(x)))
                          => /\ IsFile(fs, getFilePath(x))
                             /\ fs[getFilePath(x)].bytes =
                                    op[p].snap[getFilePath(x)].bytes
        /\ (Returned(p, "load") /\ op[p].prev # << >>
            /\ ~IsPrefix(op[p].prev, op[p].key)
            /\ rec[op[p].key].st = "saved")
               => op[p].res = Ok(rec[op[p].key].val)

\* C17: when remove(K) has completed while a load(K), or a loadRange over K,
\* issued before it was still in flight, and nothing was called on K since,
\* then with no call in flight the cache holds no entry for K.
C17_RemoveNotUndone ==
    \A p \in Procs :
        (/\ Quiescent
         /\ Returned(p, "remove")
         /\ op[p].overRead
         /\ op[p].res.st = "ok"
         /\ rec[op[p].key].st = "removed")
            => getKey(op[p].key) \notin DOMAIN cache

\* C18: from the moment save(K, B) is called, before any of its store calls
\* has been answered, the cache holds B for K, and it still does when the
\* save has been rejected.
C18_CacheBeforeStore ==
    \A p \in Procs :
        (op[p].kind = "save" /\ op[p].pc # "idle")
            => /\ getKey(op[p].key) \in DOMAIN cache
               /\ cache[getKey(op[p].key)] = op[p].bin

C18_Witness ==
    \E p \in Procs :
        /\ Returned(p, "save")
        /\ op[p].res = Rejected("IOFault")
        /\ getKey(op[p].key) \in DOMAIN cache
        /\ cache[getKey(op[p].key)] = op[p].bin
        /\ ~IsFile(fs, getFilePath(op[p].key))

\* C19: calls that resolve the same path at the same time, none finding a
\* memoized handle, end with one handle cache entry for the path, which is
\* the handle of the entry at that path and the handle each of them used; and
\* no step of a handle resolution removes a record or changes its bytes.
Resolved(o) ==
    /\ o.pc = "done"
    /\ o.kind \in {"load", "save"}
    /\ o.raced
    /\ o.handle # << >>

C19_Settled ==
    \A p \in Procs :
        Resolved(op[p])
            => LET path == getFilePath(op[p].key) IN
               /\ op[p].handle = path
               /\ getKey(path) \in DOMAIN fileHandleCache
               /\ fileHandleCache[getKey(path)] = path
               /\ Cardinality({k \in DOMAIN fileHandleCache :
                                  fileHandleCache[k] = path}) = 1
               /\ getKey(ButLast(path)) \in DOMAIN directoryHandleCache
               /\ directoryHandleCache[getKey(ButLast(path))] = ButLast(path)
               /\ op[p].dir = ButLast(path)

C19_Step ==
    \A p \in Procs :
        (op[p].pc \in {"walk", "getFileHandle"} /\ op'[p] # op[p])
            => /\ \A l \in Files(fs) : IsFile(fs', l) /\ fs'[l].bytes = fs[l].bytes
               /\ \A l \in DOMAIN fs : l \in DOMAIN fs' /\ fs'[l].kind = fs[l].kind
               /\ (op'[p].pc \in {"getFile", "open"})
                      => /\ IsFile(fs', op'[p].handle)
                         /\ fileHandleCache'[getKey(op[p].fpath)] = op'[p].handle

C19_ResolutionRace == []C19_Settled /\ [][C19_Step]_vars

C19_Witness ==
    /\ \A p \in Procs : Resolved(op[p]) /\ op[p].res.st = "ok"
    /\ op[1].key = op[2].key
    /\ op[1].kind = "load" /\ op[2].kind = "save"
    /\ op[1].handle = op[2].handle

====
